---------------------------- MODULE Spec2Model ----------------------------
(***************************************************************************)
(* Model of filter_ssm_documents.py: the ARN parser (parse_arn), the       *)
(* document fetch (get_document_content), the runtime classifier           *)
(* (has_outdated_python_runtime) and the batch driver                      *)
(* (filter_ssm_documents).                                                 *)
(*                                                                         *)
(* A Python str is the sequence of its Unicode code points.  Python's      *)
(* None, where a str is expected, is the one-element sequence None, which  *)
(* no sequence of code points equals.  The names of runtimes, actions and  *)
(* exceptions, which the code only compares for equality, are strings.     *)
(***************************************************************************)
EXTENDS Integers, Sequences, FiniteSets, TLC

VARIABLES
    boto3_available,   \* BOTO3_AVAILABLE, set at import
    input_file,        \* the file at input_file: [exists, error, lines]
    output_file,       \* the file at output_file: [exists, text]
    old_runtimes_list, \* the denylist argument
    pc,                \* position of the control flow
    result,            \* what the call returned ("True", "False"), or "raised"
    exit_path,         \* the return statement (or raise) that ended the call
    io,                \* how opening and writing the output file went
    arns_to_process,   \* local of filter_ssm_documents
    filtered_arns,     \* local of filter_ssm_documents
    processed_count,   \* local of filter_ssm_documents
    found_count,       \* local of filter_ssm_documents
    ssm_clients,       \* local of filter_ssm_documents: the regions cached
    arn,               \* loop variable / argument of parse_arn
    region,            \* first component returned by parse_arn
    doc_name,          \* second component returned by parse_arn
    document_content,  \* value returned by get_document_content
    verdict,           \* value returned by has_outdated_python_runtime
    responses,         \* what the remote collaborator answered, per input position
    output_io,         \* what the file system did when the output file was written
    output_at_start,   \* the output file as it was when the current call began
    history            \* one record per finished call

vars == <<boto3_available, input_file, output_file, old_runtimes_list, pc, result,
          exit_path, io, arns_to_process, filtered_arns, processed_count, found_count,
          ssm_clients, arn, region, doc_name, document_content, verdict, responses,
          output_io, output_at_start, history>>

-----------------------------------------------------------------------------
(* Bounds *)

MaxLines == 2
MaxRuns == 2
MaxCacheLines == 3
MaxNameLen == 2
MaxSteps == 2

-----------------------------------------------------------------------------
(* Python str helpers *)

None == <<-1>>

\* The code points str.strip() removes, those for which str.isspace() holds:
\* U+0009..U+000D, U+001C..U+0020, U+0085, U+00A0, U+1680, U+2000..U+200A,
\* U+2028, U+2029, U+202F, U+205F, U+3000.
Whitespace ==
    (9..13) \cup (28..32) \cup {133, 160, 5760} \cup (8192..8202)
    \cup {8232, 8233, 8239, 8287, 12288}

RECURSIVE lstrip(_)
lstrip(s) ==
    IF s # <<>> /\ Head(s) \in Whitespace THEN lstrip(Tail(s)) ELSE s

RECURSIVE rstrip(_)
rstrip(s) ==
    IF s # <<>> /\ s[Len(s)] \in Whitespace THEN rstrip(SubSeq(s, 1, Len(s) - 1)) ELSE s

strip(s) == rstrip(lstrip(s))

\* Python truthiness of an optional str: None and "" are falsy.
Truthy(s) == s # None /\ s # <<>>

StartsWith(s, p) == Len(s) >= Len(p) /\ SubSeq(s, 1, Len(p)) = p

Drop(s, n) == SubSeq(s, n + 1, Len(s))

\* Code points the code names: ':' and '/' in ARN_REGEX, and the line feed,
\* which its '.' does not match and which ends each line written.
Colon == 58
Slash == 47
LineFeed == 10

-----------------------------------------------------------------------------
(* ARN parsing *)

\* "arn:aws:ssm:"
ArnPrefix == <<97, 114, 110, 58, 97, 119, 115, 58, 115, 115, 109, 58>>
\* ":document/"
DocumentInfix == <<58, 100, 111, 99, 117, 109, 101, 110, 116, 47>>

\* Length of the longest prefix of s made of characters outside `stop`.
RECURSIVE SpanNot(_, _)
SpanNot(s, stop) ==
    IF s = <<>> \/ Head(s) \in stop THEN 0 ELSE 1 + SpanNot(Tail(s), stop)

\* ARN_REGEX.match(arn_string): anchored at the start only;
\*   arn:aws:ssm:  (?P<region>[^:]+)  :  (?P<account_id>[^:]+)  :document/  (?P<name>.*)
\* [^:]+ is greedy and must be followed by ':', so it spans up to the next ':';
\* '.' matches every character but the line feed.
parse_arn(arn_string) ==
    IF ~StartsWith(arn_string, ArnPrefix) THEN <<None, None>>
    ELSE LET s1 == Drop(arn_string, Len(ArnPrefix))
             n1 == SpanNot(s1, {Colon})
             s2 == Drop(s1, n1 + 1)
             n2 == SpanNot(s2, {Colon})
             s3 == Drop(s2, n2)
             s4 == Drop(s3, Len(DocumentInfix))
         IN  IF n1 = 0 \/ n1 = Len(s1) \/ n2 = 0 \/ ~StartsWith(s3, DocumentInfix)
             THEN <<None, None>>
             ELSE <<SubSeq(s1, 1, n1), SubSeq(s4, 1, SpanNot(s4, {LineFeed}))>>

-----------------------------------------------------------------------------
(* Decoded JSON values *)
(*                                                                         *)
(* A scalar is [t, s]: t is the JSON type ("absent" when the key is not in *)
(* its object) and s the text of a string.  A step's "inputs" is           *)
(* [t, Runtime], a step [t, action, inputs], "mainSteps" [t, items] and a  *)
(* document [t, n, mainSteps], n counting its other keys (its elements     *)
(* for an array or a string; for a number its value, for a boolean 1 or    *)
(* 0).  Iterating a Python str or dict                                     *)
(* yields strings, so the items of a "str" or "obj" mainSteps are strings. *)

JAbsent == [t |-> "absent", s |-> ""]
JNull == [t |-> "null", s |-> ""]
JStr(x) == [t |-> "str", s |-> x]

NoInputs == [t |-> "absent", Runtime |-> JAbsent]
NoSteps == [t |-> "absent", items |-> <<>>]
PyNone == [t |-> "none", n |-> 0, mainSteps |-> NoSteps]

ExecuteScript == "aws:executeScript"

\* bool(document_content): None, an empty object, array or string, zero and
\* false are falsy; every other value, a negative number included, is truthy.
ContentTruthy(c) ==
    CASE c.t = "none" -> FALSE
      [] c.t = "obj" -> c.mainSteps.t # "absent" \/ c.n # 0
      [] OTHER -> c.n # 0

\* dict.get(key) and dict.get(key, {}): a key that is present with the value
\* null gives None, not the default.
GetRuntime(inputs) ==
    IF inputs.t = "absent" THEN JAbsent ELSE inputs.Runtime

\* isinstance(inputs, dict), inputs being step.get("inputs", {})
InputsIsDict(inputs) == inputs.t \in {"absent", "obj"}

\* runtime in old_runtimes_list: == against each element of a list of str
InList(runtime, list) ==
    runtime.t = "str" /\ \E i \in 1..Len(list) : list[i] = runtime.s

\* the body of the for loop (lines 71-77) for one step: TRUE when it returns True
StepMatches(step, list) ==
    /\ step.t = "obj"
    /\ step.action = JStr(ExecuteScript)
    /\ InputsIsDict(step.inputs)
    /\ InList(GetRuntime(step.inputs), list)

RECURSIVE ScanSteps(_, _)
ScanSteps(items, list) ==
    IF items = <<>> THEN "False"
    ELSE IF StepMatches(Head(items), list) THEN "True"
    ELSE ScanSteps(Tail(items), list)

\* Variant: the loop returns after its first step.
has_outdated_first_step_only(content, list) ==
    IF ~ContentTruthy(content) \/ content.t # "obj" THEN "False"
    ELSE IF content.mainSteps.t \in {"null", "num", "bool"} THEN "TypeError"
    ELSE IF content.mainSteps.items # <<>>
            /\ StepMatches(Head(content.mainSteps.items), list)
         THEN "True" ELSE "False"

\* Returns "True" or "False", or "TypeError" when `for step in ...` is handed
\* a value that cannot be iterated (None, a number, a boolean).
has_outdated_python_runtime(content, list) ==
    IF ~ContentTruthy(content) \/ content.t # "obj" THEN "False"
    ELSE IF content.mainSteps.t \in {"null", "num", "bool"} THEN "TypeError"
    ELSE ScanSteps(content.mainSteps.items, list)

-----------------------------------------------------------------------------
(* The remote collaborator and get_document_content *)

\* What ssm_client.get_document and the decoding of its Content come to:
\*   ClientError.InvalidDocument, ClientError   the call raises ClientError
\*   NoCredentialsError                          the call raises it (a BotoCoreError)
\*   NoContent                                   the response has no or empty Content
\*   InvalidJSON                                 Content is not JSON text
\*   JSON                                        Content decodes to `body`
Fetched(kind, body) == [kind |-> kind, body |-> body]
NotFetched == Fetched("none", PyNone)

get_document_content(resp) ==
    CASE resp.kind = "NoContent" -> PyNone                    \* line 48-50
      [] resp.kind = "JSON" -> resp.body                      \* line 51
      [] resp.kind = "ClientError.InvalidDocument" -> PyNone  \* line 52-57
      [] resp.kind = "ClientError" -> PyNone                  \* line 52-57
      [] resp.kind = "InvalidJSON" -> PyNone                  \* line 58-60
      [] OTHER -> PyNone                                      \* line 61-63

-----------------------------------------------------------------------------
(* Files *)

\* The input file.  error is what reading an existing file raises: "none"
\* when it opens and decodes, and then lines are its lines without their
\* terminators; otherwise the exception of open (PermissionError,
\* IsADirectoryError) or of the decoding (UnicodeDecodeError).
InputErrors == {"PermissionError", "IsADirectoryError", "UnicodeDecodeError"}
NoInput == [exists |-> FALSE, error |-> "none", lines |-> <<>>]
Input(lines) == [exists |-> TRUE, error |-> "none", lines |-> lines]
Unreadable(e) == [exists |-> TRUE, error |-> e, lines |-> <<>>]

\* The output file: the text it holds, one code point per byte (what the
\* runs here write is ASCII).
NoFile == [exists |-> FALSE, text |-> <<>>]
File(text) == [exists |-> TRUE, text |-> text]

\* for arn_to_write in filtered_arns: f_out.write(f"{arn_to_write}\n")
RECURSIVE WriteLines(_)
WriteLines(lines) ==
    IF lines = <<>> THEN <<>>
    ELSE Head(lines) \o <<LineFeed>> \o WriteLines(Tail(lines))

\* Variant: open(output_file, 'a') keeps what the file holds.
OpenForAppend(file) == File(file.text)

\* open(output_file, 'w'): creates the file or truncates it
OpenForWrite(file) == File(<<>>)

\* [line.strip() for line in f_in if line.strip()]
RECURSIVE ReadArns(_)
ReadArns(lines) ==
    IF lines = <<>> THEN <<>>
    ELSE IF strip(Head(lines)) # <<>>
         THEN <<strip(Head(lines))>> \o ReadArns(Tail(lines))
         ELSE ReadArns(Tail(lines))

-----------------------------------------------------------------------------
(* One iteration of the loop of filter_ssm_documents *)

CredentialsErrors == {"NoCredentialsError", "PartialCredentialsError"}
ConstructOutcomes == {"ok", "ClientError", "Exception"} \cup CredentialsErrors

\* `if not region or not doc_name` (line 122), negated
Parsed(parts) == Truthy(parts[1]) /\ Truthy(parts[2])

\* Variant: a client is constructed for every ARN, cached or not.
NeedsClient_always(r, cache) == TRUE

\* `if region not in ssm_clients` (line 127)
NeedsClient(r, cache) == r \notin cache

\* Variant: every failure of the construction ends the run.
ConstructFatal_any(c) == c # "ok"

\* `except (NoCredentialsError, PartialCredentialsError)` (line 130)
ConstructFatal(c) == c \in CredentialsErrors

\* Variant: the parsed document name is appended.
ResultEntry_name(a, r, n) == n

\* filtered_arns.append(arn) (line 146)
ResultEntry(a, r, n) == a

\* Lines 118-147 for the ARN a, the cache as it stands, c what boto3.client
\* does if it is called and f what the fetch comes to if it is made.
\* construct and fetch are the calls actually made ("none": not made).
Iteration(a, cache, list, c, f) ==
    LET parts == parse_arn(a)
        base == [region |-> parts[1], doc_name |-> parts[2], construct |-> "none",
                 fetch |-> NotFetched, cache |-> cache, content |-> PyNone,
                 verdict |-> "none", outcome |-> "skip_unparsed"]
    IN  IF ~Parsed(parts) THEN base
        ELSE LET needs == NeedsClient(parts[1], cache)
                 made == [base EXCEPT !.construct = IF needs THEN c ELSE "none"]
             IN  IF needs /\ ConstructFatal(c)
                 THEN [made EXCEPT !.outcome = "abort_credentials"]
                 ELSE IF needs /\ c # "ok"
                 THEN [made EXCEPT !.outcome = "skip_client"]
                 ELSE LET content == get_document_content(f)
                          got == [made EXCEPT !.cache = cache \cup {parts[1]},
                                              !.fetch = f, !.content = content]
                      IN  IF ~ContentTruthy(content)
                          THEN [got EXCEPT !.outcome = "no_content"]
                          ELSE LET v == has_outdated_python_runtime(content, list)
                               IN  [got EXCEPT !.verdict = v,
                                               !.outcome = CASE v = "True" -> "outdated"
                                                             [] v = "False" -> "current"
                                                             [] OTHER -> "raised"]

-----------------------------------------------------------------------------
(* The inputs of the batch driver *)

DEFAULT_OLD_RUNTIMES == <<"python3.9", "python3.8", "python3.7", "python3.6", "python2.7">>

SeqsUpTo(S, n) == UNION {[1..k -> S] : k \in 0..n}

\* Lines of the input file, without their line terminators.
\* "arn:aws:ssm:r1:1:document/A"
LineA ==
    <<97, 114, 110, 58, 97, 119, 115, 58, 115, 115, 109, 58, 114, 49,
      58, 49, 58, 100, 111, 99, 117, 109, 101, 110, 116, 47, 65>>
\* "arn:aws:ssm:r2:1:document/p/B" between U+3000 and U+000B
LineB ==
    <<12288, 97, 114, 110, 58, 97, 119, 115, 58, 115, 115, 109, 58, 114, 50, 58,
      49, 58, 100, 111, 99, 117, 109, 101, 110, 116, 47, 112, 47, 66, 11>>
\* "not-an-arn"
LineNotArn == <<110, 111, 116, 45, 97, 110, 45, 97, 114, 110>>
\* "arn:aws:ssm:r1:1:document/"
LineNoName ==
    <<97, 114, 110, 58, 97, 119, 115, 58, 115, 115, 109, 58, 114,
      49, 58, 49, 58, 100, 111, 99, 117, 109, 101, 110, 116, 47>>
\* a blank and U+0085
LineBlank == <<32, 133>>
\* "old"
OldLine == <<111, 108, 100>>

RawLines == {LineA, LineB, LineNotArn, LineNoName, LineBlank}

Step(action, inputs) == [t |-> "obj", action |-> action, inputs |-> inputs]
Inputs(runtime) == [t |-> "obj", Runtime |-> runtime]
Steps(t, items) == [t |-> t, items |-> items]
Document(n, mainSteps) == [t |-> "obj", n |-> n, mainSteps |-> mainSteps]
\* a decoded value that is no object: t its JSON type, n as for a document
Scalar(t, n) == [PyNone EXCEPT !.t = t, !.n = n]

\* {"mainSteps":[{"action":"aws:executeScript","inputs":{"Runtime":"python3.7"}}]}
DocOutdated ==
    Document(0, Steps("arr", <<Step(JStr(ExecuteScript), Inputs(JStr("python3.7")))>>))
\* the same with "python3.11"
DocCurrent ==
    Document(0, Steps("arr", <<Step(JStr(ExecuteScript), Inputs(JStr("python3.11")))>>))
\* {"mainSteps": null}
DocNullSteps == Document(0, Steps("null", <<>>))
\* -1
DocNegative == Scalar("num", -1)

FetchOutcomes ==
    {Fetched("JSON", d) : d \in {DocOutdated, DocCurrent, DocNullSteps, DocNegative}}
    \cup {Fetched(k, PyNone) :
            k \in {"NoContent", "InvalidJSON", "ClientError", "NoCredentialsError"}}

-----------------------------------------------------------------------------
(* filter_ssm_documents *)

\* The file system lets the output file be opened (o) and takes k bytes of
\* the text; in a later run it does what it did in the first.
NoIO == [o |-> "none", k |-> 0]
FileSystemDoes(o, k) ==
    /\ output_io # NoIO => output_io = [o |-> o, k |-> k]
    /\ output_io' = [o |-> o, k |-> k]

\* The locals that lines 96-115 bind are not bound.
NoLocals ==
    /\ arns_to_process = <<>>
    /\ filtered_arns = <<>>
    /\ processed_count = 0
    /\ found_count = 0
    /\ ssm_clients = {}

\* No call is in progress: nothing is bound, nothing was returned.
Unset ==
    /\ NoLocals
    /\ arn = None
    /\ region = None
    /\ doc_name = None
    /\ document_content = PyNone
    /\ verdict = "none"
    /\ result = "none"
    /\ exit_path = "none"
    /\ io = "none"

Init ==
    /\ boto3_available \in BOOLEAN
    /\ input_file \in {NoInput} \cup {Unreadable(e) : e \in InputErrors}
                         \cup {Input(l) : l \in SeqsUpTo(RawLines, MaxLines)}
    /\ output_file \in {NoFile, File(WriteLines(<<OldLine>>))}
    /\ old_runtimes_list = DEFAULT_OLD_RUNTIMES
    /\ pc = "call"
    /\ Unset
    /\ responses = <<>>
    /\ output_io = NoIO
    /\ output_at_start = output_file
    /\ history = <<>>

\* A return statement (or the raise that leaves the function): res is what the
\* caller gets, path the statement, o how the output file's open and write went
\* and out the output file as the call leaves it.
Finish(res, path, o, out) ==
    /\ pc' = "returned"
    /\ result' = res
    /\ exit_path' = path
    /\ io' = o
    /\ output_file' = out
    /\ history' = Append(history, [result |-> res, exit_path |-> path, io |-> o,
                                   output |-> out])

\* Lines 85-115: the availability check, the read of the input file (only
\* FileNotFoundError is caught: any other exception of the read leaves the
\* function), the empty-input path and the initialisation of the loop.
Call ==
    /\ pc = "call"
    /\ UNCHANGED <<boto3_available, input_file, old_runtimes_list, arn, region, doc_name,
                   document_content, verdict, responses, output_at_start,
                   filtered_arns, processed_count, found_count, ssm_clients>>
    /\ IF ~boto3_available
       THEN Finish("False", "no_boto3", "none", output_file)
            /\ UNCHANGED <<arns_to_process, output_io>>
       ELSE IF ~input_file.exists
       THEN Finish("False", "input_missing", "none", output_file)
            /\ UNCHANGED <<arns_to_process, output_io>>
       ELSE IF input_file.error # "none"
       THEN Finish("raised", "input_unreadable", "none", output_file)
            /\ UNCHANGED <<arns_to_process, output_io>>
       ELSE /\ arns_to_process' = ReadArns(input_file.lines)
            /\ IF arns_to_process' = <<>>
               THEN \E o \in {"ok", "open_fails"} :
                        /\ FileSystemDoes(o, 0)
                        /\ IF o = "ok"
                           THEN Finish("True", "empty_input", o, OpenForWrite(output_file))
                           ELSE Finish("False", "empty_output_error", o, output_file)
               ELSE /\ pc' = "loop"
                    /\ UNCHANGED <<result, exit_path, io, output_file, history,
                                   output_io>>

\* Lines 117-147: one iteration of the for loop.
Visit ==
    /\ pc = "loop"
    /\ processed_count < Len(arns_to_process)
    /\ \E c \in ConstructOutcomes, f \in FetchOutcomes :
        LET i == processed_count + 1
            a == arns_to_process[i]
            it == Iteration(a, ssm_clients, old_runtimes_list, c, f)
            rec == [construct |-> it.construct, fetch |-> it.fetch]
        IN  \* in a later run the collaborator answers as it did
            /\ i <= Len(responses) =>
                  /\ responses[i].construct \in {"none", c}
                  /\ responses[i].fetch \in {NotFetched, f}
            \* a call that is not made has no answer: one stand-in is enough
            /\ it.construct = "none" => c = "ok"
            /\ it.fetch = NotFetched => f = Fetched("NoContent", PyNone)
            /\ i <= Len(responses) => responses[i] = rec
            /\ responses' = IF i <= Len(responses) THEN responses
                            ELSE Append(responses, rec)
            /\ processed_count' = i
            /\ arn' = a
            /\ region' = it.region
            /\ doc_name' = it.doc_name
            /\ ssm_clients' = it.cache
            /\ document_content' = IF it.fetch = NotFetched THEN document_content
                                   ELSE it.content
            /\ verdict' = IF it.verdict = "none" THEN verdict ELSE it.verdict
            /\ filtered_arns' = IF it.outcome = "outdated"
                                THEN Append(filtered_arns,
                                            ResultEntry(a, it.region, it.doc_name))
                                ELSE filtered_arns
            /\ found_count' = IF it.outcome = "outdated" THEN found_count + 1
                              ELSE found_count
            /\ IF it.outcome = "abort_credentials"
               THEN Finish("False", "credentials", "none", output_file)
               ELSE IF it.outcome = "raised"
               THEN Finish("raised", "raised", "none", output_file)
               ELSE UNCHANGED <<pc, result, exit_path, io, output_file, history>>
    /\ UNCHANGED <<boto3_available, input_file, old_runtimes_list, arns_to_process,
                   output_io, output_at_start>>

\* Variant: the write is inside the loop body.
LoopExhausted_anytime == TRUE

\* the for loop of line 117 has no ARN left
LoopExhausted == processed_count = Len(arns_to_process)

\* Lines 149-161: the output file is opened for writing and the matches are
\* written; an IOError comes from the open (the file is as it was) or from the
\* writing.  The text goes through a buffer that is flushed as a whole, so a
\* failed write leaves the truncated file with the first k bytes of the text,
\* k anywhere short of its length, inside a line or at the end of one.
Write ==
    /\ pc = "loop"
    /\ LoopExhausted
    /\ LET text == WriteLines(filtered_arns)
       IN  \E o \in {"ok", "open_fails", "write_fails"}, k \in 0..Len(text) :
            /\ o = "write_fails" => k < Len(text)
            /\ o # "write_fails" => k = Len(text)
            /\ FileSystemDoes(o, k)
            /\ CASE o = "ok" ->
                      Finish("True", "completed", o,
                             [OpenForWrite(output_file) EXCEPT !.text = @ \o text])
                 [] o = "open_fails" ->
                      Finish("False", "output_error", o, output_file)
                 [] OTHER ->
                      Finish("False", "output_error", o,
                             [OpenForWrite(output_file) EXCEPT
                                 !.text = @ \o SubSeq(text, 1, k)])
    /\ UNCHANGED <<boto3_available, input_file, old_runtimes_list, arns_to_process,
                   filtered_arns, processed_count, found_count, ssm_clients, arn, region,
                   doc_name, document_content, verdict, responses, output_at_start>>

\* The function is called again (line 185, a second run of the script) with
\* the same arguments; the remote collaborator and the file system answer as
\* they did.
Again ==
    /\ pc = "returned"
    /\ Len(history) < MaxRuns
    /\ pc' = "call"
    /\ arns_to_process' = <<>>
    /\ filtered_arns' = <<>>
    /\ processed_count' = 0
    /\ found_count' = 0
    /\ ssm_clients' = {}
    /\ arn' = None
    /\ region' = None
    /\ doc_name' = None
    /\ document_content' = PyNone
    /\ verdict' = "none"
    /\ result' = "none"
    /\ exit_path' = "none"
    /\ io' = "none"
    /\ output_at_start' = output_file
    /\ UNCHANGED <<boto3_available, input_file, output_file, old_runtimes_list,
                   responses, output_io, history>>

Next == Call \/ Visit \/ Write \/ Again

Spec == Init /\ [][Next]_vars

-----------------------------------------------------------------------------
(* One run of filter_ssm_documents over ARNs of two regions *)

CacheLines == {LineA, LineB}

\* boto3 is available, there is no output file yet and every line of the
\* input file is an ARN that parses.
InitCache ==
    /\ boto3_available = TRUE
    /\ input_file \in {Input(l) : l \in SeqsUpTo(CacheLines, MaxCacheLines)}
    /\ output_file = NoFile
    /\ old_runtimes_list = DEFAULT_OLD_RUNTIMES
    /\ pc = "call"
    /\ Unset
    /\ responses = <<>>
    /\ output_io = NoIO
    /\ output_at_start = output_file
    /\ history = <<>>

NextCache == Call \/ Visit \/ Write

SpecCache == InitCache /\ [][NextCache]_vars

-----------------------------------------------------------------------------
(* parse_arn on its own *)

\* No file, no call of the driver in progress.
Idle ==
    /\ boto3_available = TRUE
    /\ input_file = NoInput
    /\ output_file = NoFile
    /\ responses = <<>>
    /\ output_io = NoIO
    /\ output_at_start = NoFile
    /\ history = <<>>

\* a, /, : and the line feed
NameChars == {97, Slash, Colon, LineFeed}
\* "r", "r1", a line feed, ""
RegionParts == {<<114>>, <<114, 49>>, <<LineFeed>>, <<>>}
\* "1", ""
AccountParts == {<<49>>, <<>>}

Compose(r, a, n) == ArnPrefix \o r \o <<Colon>> \o a \o DocumentInfix \o n

DeleteAt(s, k) == SubSeq(s, 1, k - 1) \o SubSeq(s, k + 1, Len(s))

Composed ==
    {Compose(r, a, n) : r \in RegionParts, a \in AccountParts,
                        n \in SeqsUpTo(NameChars, MaxNameLen)}

\* Strings built from the documented shape, the same with one character
\* deleted or with a leading blank, and two strings that are no ARN at all.
ParseInputs ==
    Composed
    \cup UNION {{DeleteAt(s, k) : k \in 1..Len(s)} : s \in Composed}
    \cup {<<32>> \o s : s \in Composed}
    \cup {<<>>, LineNotArn}

InitParse ==
    /\ Idle
    /\ NoLocals
    /\ arn \in ParseInputs
    /\ region = None
    /\ doc_name = None
    /\ document_content = PyNone
    /\ verdict = "none"
    /\ result = "none"
    /\ exit_path = "none"
    /\ io = "none"
    /\ old_runtimes_list = DEFAULT_OLD_RUNTIMES
    /\ pc = "parse"

\* region, doc_name = parse_arn(arn)
Parse ==
    /\ pc = "parse"
    /\ region' = parse_arn(arn)[1]
    /\ doc_name' = parse_arn(arn)[2]
    /\ pc' = "parsed"
    /\ UNCHANGED <<boto3_available, input_file, output_file, old_runtimes_list, result,
                   exit_path, io, arns_to_process, filtered_arns, processed_count,
                   found_count, ssm_clients, arn, document_content, verdict, responses,
                   output_io, output_at_start, history>>

SpecParse == InitParse /\ [][Parse]_vars

-----------------------------------------------------------------------------
(* has_outdated_python_runtime on its own *)

RuntimeValues == {JAbsent, JNull, JStr("python3.7"), JStr("python3.11")}
ActionValues == {JAbsent, JStr(ExecuteScript), JStr("aws:runCommand")}
InputsValues ==
    {NoInputs, [t |-> "null", Runtime |-> JAbsent]}
    \cup {Inputs(r) : r \in RuntimeValues}

\* an element that is a string, not an object
StringItem == [t |-> "str", action |-> JAbsent, inputs |-> NoInputs]

StepValues ==
    {Step(a, i) : a \in ActionValues, i \in InputsValues} \cup {StringItem}

MainStepsValues ==
    {NoSteps, Steps("null", <<>>), Steps("num", <<>>), Steps("bool", <<>>),
     Steps("str", <<StringItem>>), Steps("obj", <<StringItem>>)}
    \cup {Steps("arr", q) : q \in SeqsUpTo(StepValues, MaxSteps)}

\* None, arrays and strings (empty or not), the numbers -1, 0 and 1, false
\* and true, and objects with and without other keys
Contents ==
    {PyNone}
    \cup {Scalar(t, n) : t \in {"arr", "str", "bool"}, n \in {0, 1}}
    \cup {Scalar("num", n) : n \in {-1, 0, 1}}
    \cup {Document(n, m) : n \in {0, 1}, m \in MainStepsValues}

Denylists == {DEFAULT_OLD_RUNTIMES, <<>>, <<"python3.11">>}

InitClassify ==
    /\ Idle
    /\ NoLocals
    /\ arn = None
    /\ region = None
    /\ doc_name = None
    /\ document_content \in Contents
    /\ verdict = "none"
    /\ result = "none"
    /\ exit_path = "none"
    /\ io = "none"
    /\ old_runtimes_list \in Denylists
    /\ pc = "classify"

\* has_outdated_python_runtime(document_content, old_runtimes_list)
Classify ==
    /\ pc = "classify"
    /\ verdict' = has_outdated_python_runtime(document_content, old_runtimes_list)
    /\ pc' = "classified"
    /\ UNCHANGED <<boto3_available, input_file, output_file, old_runtimes_list, result,
                   exit_path, io, arns_to_process, filtered_arns, processed_count,
                   found_count, ssm_clients, arn, region, doc_name, document_content,
                   responses, output_io, output_at_start, history>>

SpecClassify == InitClassify /\ [][Classify]_vars

-----------------------------------------------------------------------------
(* Claims about parse_arn (SpecParse) *)

Chars(s) == {s[k] : k \in 1..Len(s)}

\* The ways to read s as arn:aws:ssm:<region>:<account-id>:document/<name>,
\* region and account-id non-empty and free of ':': <<region, name>> for each.
ShapeReadings(s) ==
    {<<SubSeq(s, Len(ArnPrefix) + 1, i), SubSeq(s, j + Len(DocumentInfix) + 1, Len(s))>> :
        <<i, j>> \in {<<i, j>> \in (1..Len(s)) \X (1..Len(s)) :
            /\ i > Len(ArnPrefix)
            /\ j >= i + 2
            /\ j + Len(DocumentInfix) <= Len(s)
            /\ SubSeq(s, 1, Len(ArnPrefix)) = ArnPrefix
            /\ s[i + 1] = Colon
            /\ SubSeq(s, j + 1, j + Len(DocumentInfix)) = DocumentInfix
            /\ Colon \notin Chars(SubSeq(s, Len(ArnPrefix) + 1, i))
            /\ Colon \notin Chars(SubSeq(s, i + 2, j))}}

\* C8 as claimed: a string of the shape arn:aws:ssm:<region>:<account-id>:document/<name>
\* gives exactly its region and its name, the name running to the end of the
\* string; any other string gives (None, None); never one None without the other.
C8_AsClaimed ==
    pc = "parsed" =>
        /\ \A rd \in ShapeReadings(arn) : region = rd[1] /\ doc_name = rd[2]
        /\ ShapeReadings(arn) = {} => region = None /\ doc_name = None
        /\ region = None <=> doc_name = None

-----------------------------------------------------------------------------
(* Claims about has_outdated_python_runtime (SpecClassify) *)

\* content is an object and one of its steps is an object whose action is
\* aws:executeScript and whose inputs is an object with a Runtime in the denylist
Qualifies(c, list) ==
    /\ c.t = "obj"
    /\ \E k \in 1..Len(c.mainSteps.items) :
          LET st == c.mainSteps.items[k]
          IN  /\ st.t = "obj"
              /\ st.action.t = "str" /\ st.action.s = ExecuteScript
              /\ st.inputs.t = "obj"
              /\ st.inputs.Runtime.t = "str"
              /\ st.inputs.Runtime.s \in {list[x] : x \in 1..Len(list)}

\* C4: the classifier returns true exactly when the content is an object with
\* a qualifying step among its mainSteps, wherever that step stands and whatever
\* the other steps are; it returns false for missing content, for content
\* without mainSteps and for a list of steps none of which qualifies.
C4_Classifier ==
    pc = "classified" =>
        /\ verdict = "True" <=> Qualifies(document_content, old_runtimes_list)
        /\ (/\ ~Qualifies(document_content, old_runtimes_list)
            /\ \/ document_content.t # "obj"
               \/ document_content.mainSteps.t \in {"absent", "arr"})
           => verdict = "False"

\* True although the qualifying step is the last one, after a step that does not qualify.
C4_Witness ==
    /\ pc = "classified"
    /\ verdict = "True"
    /\ Len(document_content.mainSteps.items) = MaxSteps
    /\ ~StepMatches(document_content.mainSteps.items[1], old_runtimes_list)
    /\ document_content.mainSteps.items[1].t = "obj"

-----------------------------------------------------------------------------
(* Claims about filter_ssm_documents (Spec) *)

\* The trimmed non-blank lines of the input file, in file order.
Trimmed(lines) ==
    SelectSeq([k \in 1..Len(lines) |-> strip(lines[k])], LAMBDA x : x # <<>>)

\* parse_arn's answer for the i-th ARN of the run
PartsOf(i) == parse_arn(arns_to_process[i])

\* The i-th ARN met one of the per-ARN problems: its line was rejected, the
\* construction of its region's client failed (not for credentials), its fetch
\* failed, its content did not decode, or its document had no content.
Problem(i) ==
    \/ ~Parsed(PartsOf(i))
    \/ responses[i].construct \in {"ClientError", "Exception"}
    \/ responses[i].fetch.kind \in
          {"ClientError", "NoCredentialsError", "InvalidJSON", "NoContent"}

\* The i-th ARN ended the run: credentials at construction, or the classifier raised.
EndedRun(i) ==
    \/ responses[i].construct \in CredentialsErrors
    \/ /\ responses[i].fetch.kind = "JSON"
       /\ has_outdated_python_runtime(responses[i].fetch.body, old_runtimes_list)
             \notin {"True", "False"}

\* C1: a per-ARN problem never ends the run: after it the loop goes on to the
\* next ARN, or, after the last ARN, to the write; the output file is opened
\* only once every ARN has been visited; a run in which no ARN ended the run
\* visits them all; and the run returns True whenever the write succeeds.
C1_BestEffort ==
    /\ \A i \in 1..processed_count :
          Problem(i) =>
              \/ pc = "loop"
              \/ processed_count > i
              \/ i = Len(arns_to_process) /\ exit_path \in {"completed", "output_error"}
    /\ io # "none" => processed_count = Len(arns_to_process)
    /\ (/\ pc = "returned"
        /\ exit_path \notin {"no_boto3", "input_missing", "input_unreadable"}
        /\ \A i \in 1..processed_count : ~EndedRun(i))
       => processed_count = Len(arns_to_process) /\ io # "none"
    /\ pc = "returned" /\ io = "ok" => result = "True"

\* A rejected line came first, the next ARN was still classified and written.
C1_Witness ==
    /\ pc = "returned"
    /\ result = "True"
    /\ processed_count = 2
    /\ ~Parsed(PartsOf(1))
    /\ output_file = File(WriteLines(<<arns_to_process[2]>>))

\* C2 as claimed: a credentials failure signalled by the remote collaborator,
\* at client construction or at the fetch of a document, ends the run at once
\* with False and no further ARN is processed; every other remote failure is
\* skipped.
C2_AsClaimed ==
    \A i \in 1..processed_count :
        /\ (\/ responses[i].construct \in CredentialsErrors
            \/ responses[i].fetch.kind = "NoCredentialsError")
           => pc = "returned" /\ result = "False" /\ processed_count = i
        /\ (\/ responses[i].construct \in {"ClientError", "Exception"}
            \/ responses[i].fetch.kind \in {"ClientError", "InvalidJSON", "NoContent"})
           => pc = "loop" \/ processed_count > i \/ exit_path \in {"completed", "output_error"}

\* The i-th trimmed line parsed, its content was fetched and classified outdated.
Kept(i) ==
    /\ i <= Len(responses)
    /\ Parsed(parse_arn(Trimmed(input_file.lines)[i]))
    /\ responses[i].fetch.kind = "JSON"
    /\ Qualifies(responses[i].fetch.body, old_runtimes_list)

RECURSIVE KeptLines(_)
KeptLines(n) ==
    IF n = 0 THEN <<>>
    ELSE KeptLines(n - 1)
         \o (IF Kept(n) THEN <<Trimmed(input_file.lines)[n]>> ELSE <<>>)

\* C3: after a run that returned True the output file holds exactly the
\* trimmed non-blank input lines that parsed, were fetched and were classified
\* outdated, in input order, each as the ARN string of its line.
C3_StableFilter ==
    pc = "returned" /\ result = "True" =>
        output_file = File(WriteLines(KeptLines(Len(Trimmed(input_file.lines)))))

\* Two matches, written in input order, the padded line trimmed.
C3_Witness ==
    /\ pc = "returned"
    /\ result = "True"
    /\ input_file.lines = <<LineB, LineA>>
    /\ output_file.text = strip(LineB) \o <<LineFeed>> \o LineA \o <<LineFeed>>

\* C5 as claimed: the classifier returns a boolean for every decoded content
\* and never raises, so no run is aborted by the classification of a document.
C5_AsClaimed ==
    /\ verdict \in {"none", "True", "False"}
    /\ exit_path # "raised"

\* The input file exists, can be read and has no non-blank line.
EmptyInput ==
    input_file.exists /\ input_file.error = "none" /\ Trimmed(input_file.lines) = <<>>

\* C6 as claimed: on an input file with no non-blank line the run leaves an
\* empty output file and returns True, with no client and no remote call.
C6_AsClaimed ==
    pc = "returned" /\ EmptyInput =>
        /\ output_file = File(<<>>)
        /\ result = "True"
        /\ ssm_clients = {}
        /\ responses = <<>>

\* C6 amended: on an input file with no non-blank line no client is
\* constructed and no remote call is made; if boto3 is available and the
\* output file can be opened, the run leaves an empty output file and returns
\* True; otherwise it returns False and the output file is as it was.
C6_EmptyInput ==
    pc = "returned" /\ EmptyInput =>
        /\ ssm_clients = {}
        /\ responses = <<>>
        /\ processed_count = 0
        /\ IF boto3_available /\ io = "ok"
           THEN output_file = File(<<>>) /\ result = "True"
           ELSE output_file = output_at_start /\ result = "False"

\* Only blank lines in the input; an output file that held a line is now empty.
C6_Witness ==
    /\ pc = "returned"
    /\ EmptyInput
    /\ input_file.lines # <<>>
    /\ output_at_start = File(WriteLines(<<OldLine>>))
    /\ output_file = File(<<>>)
    /\ result = "True"

\* C7: two runs in a row on the same input, denylist and remote responses,
\* with the output file equally writable, return the same and leave the same
\* output file, lines and order; a successful write leaves exactly the lines
\* of its own run, whatever the file held.
C7_Idempotent ==
    /\ \A k \in 1..(Len(history) - 1) :
          history[k].io = history[k + 1].io /\ history[k].io # "write_fails" =>
              /\ history[k + 1].output = history[k].output
              /\ history[k + 1].result = history[k].result
    /\ pc = "returned" /\ io = "ok" => output_file.text = WriteLines(filtered_arns)

\* The second run has written the two lines again, over those of the first.
C7_Witness ==
    /\ pc = "returned"
    /\ Len(history) = 2
    /\ history[1].io = "ok" /\ history[2].io = "ok"
    /\ Len(filtered_arns) = 2
    /\ history[1].output.text = WriteLines(filtered_arns)
    /\ output_file = history[1].output

\* The regions whose client was constructed before the i-th ARN of the run
OkBefore(i) ==
    {PartsOf(j)[1] : j \in {j \in 1..(i - 1) : responses[j].construct = "ok"}}

\* construction was attempted for the ARNs the cache did not cover, and no
\* region was constructed twice
CacheDiscipline ==
    /\ ssm_clients = OkBefore(processed_count + 1)
    /\ \A i \in 1..processed_count :
          responses[i].construct # "none"
              <=> Parsed(PartsOf(i)) /\ PartsOf(i)[1] \notin OkBefore(i)
    /\ \A i, j \in 1..processed_count :
          (/\ i < j
           /\ responses[i].construct = "ok"
           /\ responses[j].construct = "ok") => PartsOf(i)[1] # PartsOf(j)[1]

\* the construction for the i-th ARN failed, not for credentials, and the
\* j-th ARN is a later ARN of the same region
LaterOfFailed(i, j) ==
    /\ i < j
    /\ responses[i].construct \in {"ClientError", "Exception"}
    /\ Parsed(PartsOf(j))
    /\ PartsOf(j)[1] = PartsOf(i)[1]

\* C9 as claimed: the cache holds exactly the regions constructed so far in
\* this run; construction is attempted for an ARN exactly when it parsed and
\* its region is not cached; no region is constructed twice; after a failed
\* construction every later ARN of the region attempts the construction again.
C9_AsClaimed ==
    pc \in {"loop", "returned"} =>
        /\ CacheDiscipline
        /\ \A i, j \in 1..processed_count :
              LaterOfFailed(i, j) => responses[j].construct # "none"

\* C9 amended: as claimed, but a later ARN of the region attempts the
\* construction again only until an attempt for the region succeeds; the ARNs
\* of the region after that one use the cached client.
C9_ClientCache ==
    pc \in {"loop", "returned"} =>
        /\ CacheDiscipline
        /\ \A i, j \in 1..processed_count :
              LaterOfFailed(i, j) =>
                  (responses[j].construct # "none"
                      <=> \A k \in (i + 1)..(j - 1) :
                             ~(responses[k].construct = "ok"
                               /\ PartsOf(k)[1] = PartsOf(i)[1]))

\* The first ARN's construction failed, the second ARN of the same region
\* attempted it again and succeeded, the third used the cached client.
C9_Witness ==
    /\ pc = "loop"
    /\ processed_count = 3
    /\ responses[1].construct = "ClientError"
    /\ responses[2].construct = "ok"
    /\ responses[3].construct = "none"
    /\ PartsOf(1)[1] = PartsOf(2)[1]
    /\ PartsOf(2)[1] = PartsOf(3)[1]
    /\ ssm_clients = {PartsOf(1)[1]}

\* C10: a run that ends because the input file is missing or because client
\* construction met a credentials failure leaves the output file as it was,
\* matches accumulated so far included; the output file is opened only on the
\* empty-input path or once the loop has visited every ARN, and changes only
\* when it is opened.
C10_OutputFrame ==
    /\ pc = "returned" /\ exit_path \in {"input_missing", "credentials"}
          => output_file = output_at_start /\ io = "none"
    /\ io # "none" =>
          \/ exit_path \in {"empty_input", "empty_output_error"}
          \/ /\ exit_path \in {"completed", "output_error"}
             /\ processed_count = Len(arns_to_process)
    /\ output_file # output_at_start => io # "none"

\* A match was accumulated, then a credentials failure ended the run: no file.
C10_Witness ==
    /\ pc = "returned"
    /\ exit_path = "credentials"
    /\ filtered_arns # <<>>
    /\ output_at_start = NoFile
    /\ output_file = NoFile

=============================================================================
